---- MODULE Spec2Model ----
(***************************************************************************)
(* Model of the beats catalogue canister (src/unnamed/part_000): an        *)
(* express application whose handlers read and write one StableBTreeMap    *)
(* keyed by beat id.  Each handler runs to completion, so each is one      *)
(* action.  Objects (a Beat, a request body) are functions from field      *)
(* names to values and the object spread {...a, ...b} is Spread(a, b).     *)
(***************************************************************************)
EXTENDS Integers, FiniteSets, TLC

VARIABLES
    beatsStorage,   \* StableBTreeMap<string, Beat>: function from the keys present to Beat
    icTime,         \* ic.time(): nanoseconds, the same value for calls of one round
    uuidCount,      \* number of uuidv4() values drawn so far
    req,            \* the request last handled: [op, id, body]
    beatOpt,        \* what the last handler read from the store (None when absent)
    res,            \* the response last sent
    heldIds,        \* history: every id a stored record has carried so far
    mutated,        \* history: keys whose stored value came from update/buy/feature
    bought,         \* history: ids whose buy succeeded, not deleted or created anew since
    deleted,        \* history: ids whose delete succeeded, no create returned since
    nCalls          \* number of requests handled

vars == <<beatsStorage, icTime, uuidCount, req, beatOpt, res,
          heldIds, mutated, bought, deleted, nCalls>>

-----------------------------------------------------------------------------
(* Bounds of the model. *)

MaxCreates == 2     \* uuidv4() is drawn at most this many times
MaxCalls == 4       \* requests handled in one behaviour of Spec
MaxDeepCalls == 5   \* requests handled in one behaviour of SpecDeep
MaxTicks == 2       \* advances of the canister clock

(* Program constants. *)

NsPerMs == 1000000  \* getCurrentDate divides ic.time() by 1000_000
null == -1          \* updatedAt: Date | null; dates are >= 0 milliseconds

None == [None |-> TRUE]     \* the Opt value { None: null }

\* the clock advances in steps of half a millisecond, so that two calls may
\* fall in one millisecond as well as in different ones
TickNs == NsPerMs \div 2

-----------------------------------------------------------------------------
(* Objects and the object spread. *)

Empty == [f \in {} |-> 0]

\* { ...a, ...b }: the fields of both, b's value where both have the field
Spread(a, b) ==
    [f \in (DOMAIN a) \cup (DOMAIN b) |-> IF f \in DOMAIN b THEN b[f] ELSE a[f]]

Without(a, fields) == [f \in (DOMAIN a) \ fields |-> a[f]]

-----------------------------------------------------------------------------
(* StableBTreeMap: get, insert, remove. *)

get(map, key) == IF key \in DOMAIN map THEN [Some |-> map[key]] ELSE None

insert(map, key, value) ==
    [k \in (DOMAIN map) \cup {key} |-> IF k = key THEN value ELSE map[k]]

remove(map, key) == [k \in (DOMAIN map) \ {key} |-> map[k]]

beatFinder(id) == get(beatsStorage, id)

-----------------------------------------------------------------------------
(* getCurrentDate: new Date(ic.time() / 1000_000); a Date holds whole       *)
(* milliseconds, the fraction is cut off.                                   *)

getCurrentDate == icTime \div NsPerMs

\* uuidv4(): a value never drawn before; the ids are 1, 2, ...
uuidv4 == uuidCount + 1

\* generateRes: res.status(status).json({ status, ...data })
generateRes(status, data) == Spread([status |-> status], data)

\* res.status(status).send(message)
sendText(status, message) == [status |-> status, text |-> message]

-----------------------------------------------------------------------------
(* Request bodies.  A client may send any JSON object: the documented      *)
(* fields, none of them, or fields named like the protected ones.          *)

\* ids a client can put in a path: any uuid, handed out already or not
PathIds == 1..MaxCreates

\* ids a client can put in a body: the ones it has seen, those handed out
IssuedIds == 1..uuidCount

NewBeat == [title |-> "t1", artist |-> "a1", price |-> 1, url |-> "u1"]

ForgedFields(ids) ==
    {[id |-> i] : i \in ids}
        \cup {[createdAt |-> 0], [updatedAt |-> null], [sold |-> FALSE]}

PostBodies(ids) ==
    {Empty, NewBeat} \cup {Spread(NewBeat, x) : x \in ForgedFields(ids)}

PutBodies(ids) ==
    {[price |-> 2], [title |-> "t2"]} \cup ForgedFields(ids)

-----------------------------------------------------------------------------
(* The records the handlers build. *)

\* { id: uuidv4(), createdAt: getCurrentDate(), ...req.body,
\*   updatedAt: null, sold: false, featured: false }
newBeat(body, uuid, now) ==
    Spread(Spread([id |-> uuid, createdAt |-> now], body),
           [updatedAt |-> null, sold |-> FALSE, featured |-> FALSE])

\* variants of updatedBeat with the spreads in another order
updatedBeatBodyLast(beat, body, now) ==
    Spread(Spread(beat, [updatedAt |-> now]), body)

updatedBeatBodyFirst(beat, body, now) ==
    Spread(Spread(body, beat), [updatedAt |-> now])

\* { ...beat, ...req.body, updatedAt: getCurrentDate() }
updatedBeat(beat, body, now) ==
    Spread(Spread(beat, body), [updatedAt |-> now])

\* { ...beat, sold: true, updatedAt: getCurrentDate() }
soldBeat(beat, now) == Spread(beat, [sold |-> TRUE, updatedAt |-> now])

\* variant of featuredBeat that flips the flag instead of setting it
featuredBeatToggle(beat, now) ==
    Spread(beat, [featured |-> ~beat.featured, updatedAt |-> now])

\* { ...beat, featured: true, updatedAt: getCurrentDate() }
featuredBeat(beat, now) == Spread(beat, [featured |-> TRUE, updatedAt |-> now])

-----------------------------------------------------------------------------
Init ==
    /\ beatsStorage = Empty
    /\ icTime = NsPerMs
    /\ uuidCount = 0
    /\ req = [op |-> "none", id |-> 0, body |-> Empty]
    /\ beatOpt = None
    /\ res = sendText(0, "none")
    /\ heldIds = {}
    /\ mutated = {}
    /\ bought = {}
    /\ deleted = {}
    /\ nCalls = 0

\* the canister clock moves on between calls
Tick ==
    /\ icTime < NsPerMs + MaxTicks * TickNs
    /\ icTime' = icTime + TickNs
    /\ UNCHANGED <<beatsStorage, uuidCount, req, beatOpt, res,
                   heldIds, mutated, bought, deleted, nCalls>>

\* app.post("/beats")
PostBeats(body) ==
    LET beat == newBeat(body, uuidv4, getCurrentDate) IN
    /\ uuidCount < MaxCreates
    /\ uuidCount' = uuidCount + 1
    /\ beatsStorage' = insert(beatsStorage, beat.id, beat)
    /\ req' = [op |-> "create", id |-> 0, body |-> body]
    /\ beatOpt' = None
    /\ res' = generateRes(201, beat)
    /\ heldIds' = heldIds \cup {beat.id}
    /\ mutated' = mutated \ {beat.id}
    /\ bought' = bought \ {beat.id}
    /\ deleted' = deleted \ {beat.id}
    /\ nCalls' = nCalls + 1
    /\ UNCHANGED icTime

\* app.get("/beats/:id")
GetBeat(beatId) ==
    /\ req' = [op |-> "get", id |-> beatId, body |-> Empty]
    /\ beatOpt' = beatFinder(beatId)
    /\ res' = IF beatOpt' = None
                THEN sendText(404, "not found")
                ELSE generateRes(200, beatOpt'.Some)
    /\ nCalls' = nCalls + 1
    /\ UNCHANGED <<beatsStorage, icTime, uuidCount, heldIds, mutated, bought, deleted>>

\* app.put("/beats/:id")
PutBeat(beatId, body) ==
    /\ req' = [op |-> "update", id |-> beatId, body |-> body]
    /\ beatOpt' = beatFinder(beatId)
    /\ nCalls' = nCalls + 1
    /\ IF beatOpt' = None
         THEN /\ res' = sendText(400, "not found")
              /\ UNCHANGED <<beatsStorage, heldIds, mutated>>
         ELSE LET beat == beatOpt'.Some
                  updated == updatedBeat(beat, body, getCurrentDate)
              IN  /\ beatsStorage' = insert(beatsStorage, beat.id, updated)
                  /\ res' = generateRes(200, updated)
                  /\ heldIds' = heldIds \cup {updated.id}
                  /\ mutated' = mutated \cup {beat.id}
    /\ UNCHANGED <<icTime, uuidCount, bought, deleted>>

\* app.delete("/beats/:id")
DeleteBeat(beatId) ==
    LET deletedBeat == get(beatsStorage, beatId) IN
    /\ req' = [op |-> "delete", id |-> beatId, body |-> Empty]
    /\ beatOpt' = deletedBeat
    /\ beatsStorage' = remove(beatsStorage, beatId)
    /\ nCalls' = nCalls + 1
    /\ IF deletedBeat = None
         THEN /\ res' = sendText(400, "not found")
              /\ UNCHANGED <<mutated, bought, deleted>>
         ELSE /\ res' = generateRes(200, deletedBeat.Some)
              /\ mutated' = mutated \ {beatId}
              /\ bought' = bought \ {beatId}
              /\ deleted' = deleted \cup {beatId}
    /\ UNCHANGED <<icTime, uuidCount, heldIds>>

\* app.post("/beats/:id/buy")
BuyBeat(beatId) ==
    /\ req' = [op |-> "buy", id |-> beatId, body |-> Empty]
    /\ beatOpt' = beatFinder(beatId)
    /\ nCalls' = nCalls + 1
    /\ IF beatOpt' = None
         THEN /\ res' = sendText(404, "not found")
              /\ UNCHANGED <<beatsStorage, mutated, bought>>
         ELSE LET beat == beatOpt'.Some IN
              IF beat.sold
                THEN /\ res' = sendText(400, "already sold")
                     /\ UNCHANGED <<beatsStorage, mutated, bought>>
                ELSE LET sold == soldBeat(beat, getCurrentDate) IN
                     /\ beatsStorage' = insert(beatsStorage, sold.id, sold)
                     /\ res' = generateRes(200, sold)
                     /\ mutated' = mutated \cup {sold.id}
                     /\ bought' = bought \cup {beatId}
    /\ UNCHANGED <<icTime, uuidCount, heldIds, deleted>>

\* app.post("/beats/:id/feature")
FeatureBeat(beatId) ==
    /\ req' = [op |-> "feature", id |-> beatId, body |-> Empty]
    /\ beatOpt' = beatFinder(beatId)
    /\ nCalls' = nCalls + 1
    /\ IF beatOpt' = None
         THEN /\ res' = sendText(404, "not found")
              /\ UNCHANGED <<beatsStorage, mutated>>
         ELSE LET featured == featuredBeat(beatOpt'.Some, getCurrentDate) IN
              /\ beatsStorage' = insert(beatsStorage, featured.id, featured)
              /\ res' = generateRes(200, featured)
              /\ mutated' = mutated \cup {featured.id}
    /\ UNCHANGED <<icTime, uuidCount, heldIds, bought, deleted>>

Next ==
    \/ Tick
    \/ \E body \in PostBodies(IssuedIds) : nCalls < MaxCalls /\ PostBeats(body)
    \/ \E beatId \in PathIds : nCalls < MaxCalls /\ GetBeat(beatId)
    \/ \E beatId \in PathIds : \E body \in PutBodies(IssuedIds) :
            nCalls < MaxCalls /\ PutBeat(beatId, body)
    \/ \E beatId \in PathIds : nCalls < MaxCalls /\ DeleteBeat(beatId)
    \/ \E beatId \in PathIds : nCalls < MaxCalls /\ BuyBeat(beatId)
    \/ \E beatId \in PathIds : nCalls < MaxCalls /\ FeatureBeat(beatId)

Spec == Init /\ [][Next]_vars

\* the same program with room for one more request
NextDeep ==
    \/ Tick
    \/ \E body \in PostBodies(IssuedIds) : nCalls < MaxDeepCalls /\ PostBeats(body)
    \/ \E beatId \in PathIds : nCalls < MaxDeepCalls /\ GetBeat(beatId)
    \/ \E beatId \in PathIds : \E body \in PutBodies(IssuedIds) :
            nCalls < MaxDeepCalls /\ PutBeat(beatId, body)
    \/ \E beatId \in PathIds : nCalls < MaxDeepCalls /\ DeleteBeat(beatId)
    \/ \E beatId \in PathIds : nCalls < MaxDeepCalls /\ BuyBeat(beatId)
    \/ \E beatId \in PathIds : nCalls < MaxDeepCalls /\ FeatureBeat(beatId)

SpecDeep == Init /\ [][NextDeep]_vars

-----------------------------------------------------------------------------
(* Properties.  req, beatOpt and res describe the request handled last;    *)
(* a step is a request of kind op when it adds one to nCalls.              *)

CallStep(ops) == nCalls' = nCalls + 1 /\ req'.op \in ops

\* the record a 200/201 response carries
Data(r) == Without(r, {"status"})

NotFound404 == sendText(404, "not found")
NotFound400 == sendText(400, "not found")
AlreadySold == sendText(400, "already sold")

Mutations == {"update", "buy", "feature"}

\* C1: a stored record whose sold flag is true never has sold = false in a
\* later state while it stays in the store, whatever request is handled (a
\* create that returns the record's id puts a new record in its place).
C1_SoldNeverReverts ==
    [][\A k \in (DOMAIN beatsStorage) \cap (DOMAIN beatsStorage') :
          \/ CallStep({"create"}) /\ res'.id = k
          \/ beatsStorage[k].sold => beatsStorage'[k].sold]_vars

\* C2: the id a create returns was never carried by an earlier record, live
\* or deleted (so the ids the creates return are pairwise distinct).
C2_CreateReturnsFreshId ==
    [][CallStep({"create"}) => res'.id \notin heldIds]_vars

\* C3: once buy(id) has succeeded and id was not deleted since, a buy(id)
\* answers "already sold" and leaves the store as it was.
C3_SecondBuyFails ==
    [][CallStep({"buy"}) /\ req'.id \in bought
          => res' = AlreadySold /\ beatsStorage' = beatsStorage]_vars

\* C4: no update, buy or feature request changes the createdAt of a record
\* that is in the store before and after it.
C4_CreatedAtFixed ==
    [][CallStep(Mutations)
          => \A k \in (DOMAIN beatsStorage) \cap (DOMAIN beatsStorage') :
                beatsStorage'[k].createdAt = beatsStorage[k].createdAt]_vars

\* C5: a stored record has updatedAt = null exactly when it was written by
\* create and by no update, buy or feature since; create answers with
\* updatedAt = null, a successful update, buy or feature with a date, and a
\* request that fails leaves the store as it was.
UpdatedAtTracksMutation ==
    /\ \A k \in DOMAIN beatsStorage :
          (beatsStorage[k].updatedAt = null) <=> (k \notin mutated)
    /\ req.op = "create" => res.updatedAt = null
    /\ req.op \in Mutations /\ res.status = 200 => res.updatedAt # null

C5_UpdatedAtAbsentIffNeverMutated ==
    [][/\ UpdatedAtTracksMutation'
       /\ CallStep(Mutations) /\ res'.status # 200 => beatsStorage' = beatsStorage]_vars

\* C5 witness: an update whose body asks for updatedAt = null succeeded, and
\* another record, never mutated, is in the store.
C5_Witness ==
    /\ req.op = "update" /\ res.status = 200
    /\ req.body = [updatedAt |-> null]
    /\ \E k \in DOMAIN beatsStorage : k \notin mutated

\* what update(id, {price: p}) does to the record R stored under id; Later
\* is the order required between R.updatedAt and the new updatedAt
PriceUpdate(Later(_, _)) ==
    CallStep({"update"}) /\ DOMAIN req'.body = {"price"} =>
        IF req'.id \in DOMAIN beatsStorage
          THEN LET R == beatsStorage[req'.id]
                   U == Data(res')
               IN  /\ res'.status = 200
                   /\ DOMAIN U = (DOMAIN R) \cup {"price"}
                   /\ \A f \in (DOMAIN R) \ {"price", "updatedAt"} : U[f] = R[f]
                   /\ U.price = req'.body.price
                   /\ U.updatedAt # null
                   /\ R.updatedAt # null => Later(U.updatedAt, R.updatedAt)
                   /\ U.id \in DOMAIN beatsStorage' /\ beatsStorage'[U.id] = U
          ELSE res' = NotFound400 /\ beatsStorage' = beatsStorage

StrictlyLater(a, b) == a > b
NotEarlier(a, b) == a >= b

\* C6 as stated: update(id, {price: p}) on a stored record R returns and
\* stores R with price = p and an updatedAt strictly later than R.updatedAt
\* when that was present; on an id not in the store it answers not found and
\* leaves the store as it was.
C6_UpdateMergeStrictlyLater == [][PriceUpdate(StrictlyLater)]_vars

\* C6 amended: as above, with the new updatedAt not earlier than
\* R.updatedAt; the two are equal when both requests fall in one millisecond.
C6_UpdateMergeNotEarlier == [][PriceUpdate(NotEarlier)]_vars

\* C6 witness: a price-only update succeeded on a record that had been
\* updated before, in the same millisecond.
C6_Witness ==
    /\ req.op = "update" /\ res.status = 200
    /\ DOMAIN req.body = {"price"}
    /\ beatOpt.Some.updatedAt = res.updatedAt
    /\ res.price # NewBeat.price

\* C7: feature(id) on a stored record R succeeds whatever R.featured and
\* R.sold are; the record returned and stored is R with featured = true and
\* a new updatedAt; a feature(id) right after a successful feature(id)
\* returns the same record except for updatedAt.
C7_FeatureIdempotent ==
    [][CallStep({"feature"}) /\ req'.id \in DOMAIN beatsStorage =>
          LET R == beatsStorage[req'.id]
              F == Data(res')
          IN  /\ res'.status = 200
              /\ DOMAIN F = DOMAIN R
              /\ F.featured = TRUE
              /\ \A f \in (DOMAIN R) \ {"featured", "updatedAt"} : F[f] = R[f]
              /\ F.id \in DOMAIN beatsStorage' /\ beatsStorage'[F.id] = F
              /\ (req.op = "feature" /\ req.id = req'.id /\ res.status = 200)
                    => Without(F, {"updatedAt"}) = Without(Data(res), {"updatedAt"})]_vars

\* C7 witness: feature succeeded on a record that was already featured and
\* already sold.
C7_Witness ==
    /\ req.op = "feature" /\ res.status = 200
    /\ beatOpt.Some.featured /\ beatOpt.Some.sold

\* C8: after delete(id) has succeeded, and until a create returns id, id is
\* not in the store: getById(id) and delete(id) answer not found.
C8_DeleteFinal ==
    [][/\ deleted' \cap (DOMAIN beatsStorage') = {}
       /\ CallStep({"get"}) /\ req'.id \in deleted => res' = NotFound404
       /\ CallStep({"delete"}) /\ req'.id \in deleted => res' = NotFound400]_vars

\* C9: every record in the store is stored under the key equal to its id.
C9_KeyIsId == \A k \in DOMAIN beatsStorage : beatsStorage[k].id = k

\* C10: a successful update, buy or feature of id leaves the set of keys as
\* it was and changes the record under no key other than id.
C10_OnlyNamedKeyReplaced ==
    [][CallStep(Mutations) /\ res'.status = 200 =>
          /\ DOMAIN beatsStorage' = DOMAIN beatsStorage
          /\ \A k \in (DOMAIN beatsStorage) \ {req'.id} :
                beatsStorage'[k] = beatsStorage[k]]_vars

====
